---- MODULE Spec2Model ----
(***************************************************************************)
(* Model of company.go: the Company product-name helpers                   *)
(* (AddProductName / RemoveProductName) and the CompanyServiceOp           *)
(* operations (Get, GetAll, Search, Create, Update, Delete).               *)
(*                                                                         *)
(* A Go string is a sequence of one-character strings, so that             *)
(* strings.Split and strings.Join are computed character by character.     *)
(* A *HsStr is a record [present, s]: present = FALSE is the nil pointer.  *)
(***************************************************************************)
EXTENDS Integers, Sequences, FiniteSets, TLC

VARIABLES
    ProductNames,   \* Company.ProductNames of the Company the helpers act on
    before,         \* ProductNames when the last helper call started
    before2,        \* ProductNames when the call before the last one started
    lastOp,         \* the last helper call: [op, name]
    prevOp,         \* the helper call before the last one
    panicked,       \* a helper call ended in a runtime panic
    pc,             \* per goroutine: position inside its AddProductName call
    gname,          \* per goroutine: the name argument of its call
    cond,           \* per goroutine: outcome of the condition of line 158
    tmp,            \* per goroutine: the local tmpProductNames
    seen,           \* per goroutine: ProductNames as read at line 159 (or 158)
    raceInit,       \* ProductNames when the goroutines were started
    target,         \* the caller's Company structure handed to the service
    pre,            \* target when the last service call started
    svc,            \* the last service call: [op, id, option]
    req,            \* the request the last call handed to the transport
    resp,           \* what the server answered to it
    ret             \* what the last call returned: [resource, err]

hvars == <<ProductNames, before, before2, lastOp, prevOp, panicked>>
rvars == <<pc, gname, cond, tmp, seen, raceInit>>
svars == <<target, pre, svc, req, resp, ret>>
vars == <<ProductNames, before, before2, lastOp, prevOp, panicked,
          pc, gname, cond, tmp, seen, raceInit,
          target, pre, svc, req, resp, ret>>

----------------------------------------------------------------------------
(* Bounds *)

\* longest ProductNames string the model stores or starts from
MaxLen == 5

\* longest ProductNames string the concurrent calls start from
MaxRaceLen == 2

----------------------------------------------------------------------------
(* Strings *)

Sep == ";"

Chars == {"x", "y", Sep}

RECURSIVE StringsUpTo(_)
StringsUpTo(n) ==
    IF n = 0 THEN {<<>>}
    ELSE LET S == StringsUpTo(n - 1)
         IN  S \cup {Append(s, c) : s \in {t \in S : Len(t) = n - 1}, c \in Chars}

\* the name arguments the calls are made with
Names == {<<>>, <<"x">>, <<"y">>, <<Sep>>, <<"x", Sep, "y">>}

\* a nil *HsStr
Nil == [present |-> FALSE, s |-> <<>>]

\* NewString(s): a pointer to an HsStr holding s
NewString(s) == [present |-> TRUE, s |-> s]

\* (*HsStr).String() of a non-nil pointer
String(p) == p.s

\* index of the first separator in s, 0 when there is none
IndexSep(s) ==
    IF \E k \in 1..Len(s) : s[k] = Sep
    THEN CHOOSE k \in 1..Len(s) : s[k] = Sep /\ \A j \in 1..(k - 1) : s[j] # Sep
    ELSE 0

\* strings.Split(s, ";")
RECURSIVE Split(_)
Split(s) ==
    LET m == IndexSep(s)
    IN  IF m = 0 THEN <<s>>
        ELSE <<SubSeq(s, 1, m - 1)>> \o Split(SubSeq(s, m + 1, Len(s)))

\* strings.Join(elems, ";")
RECURSIVE Join(_)
Join(elems) ==
    IF Len(elems) = 0 THEN <<>>
    ELSE IF Len(elems) = 1 THEN elems[1]
    ELSE elems[1] \o <<Sep>> \o Join(Tail(elems))

----------------------------------------------------------------------------
(* AddProductName *)

\* line 158: c.ProductNames != nil && c.ProductNames.String() != ""
AddCond(p) == p.present /\ String(p) # <<>>

\* a variant that skips a name already among the tokens
AddTokensDedup(p, name) ==
    LET cur == IF AddCond(p) THEN Split(String(p)) ELSE <<>>
    IN  IF \E k \in 1..Len(cur) : cur[k] = name THEN cur ELSE Append(cur, name)

\* lines 157-161: the local tmpProductNames after the append
AddTokens(p, name) ==
    Append(IF AddCond(p) THEN Split(String(p)) ELSE <<>>, name)

\* line 162: the value stored for the local tmpProductNames
AddStoreValue(tokens) == NewString(Join(tokens))

\* lines 156-163: the field after AddProductName(name) on the field p
AddValue(p, name) == AddStoreValue(AddTokens(p, name))

----------------------------------------------------------------------------
(* RemoveProductName *)

\* line 172: append(tmp[:i], tmp[i+1:]...) on a slice of length L over the
\* backing array arr, i counted from 0. The slice expression tmp[i+1:] is out
\* of range when i+1 > L. The elements are moved inside the backing array.
SliceDeleteInRangeStrict(L, i) == i + 1 < L

SliceDeleteInRange(L, i) == i + 1 <= L

SliceDelete(arr, L, i) ==
    [j \in 1..Len(arr) |-> IF j >= i + 1 /\ j <= L - 1 THEN arr[j + 1] ELSE arr[j]]

\* lines 170-174: the range loop. The range expression is evaluated once, so
\* i runs over the n indices of the original slice and v is read from the
\* shared backing array arr; L is the current length of tmpProductNames.
RECURSIVE RemoveLoop(_, _, _, _, _)
RemoveLoop(arr, n, L, i, name) ==
    IF i >= n THEN [panic |-> FALSE, tokens |-> SubSeq(arr, 1, L)]
    ELSE IF arr[i + 1] = name
         THEN IF SliceDeleteInRange(L, i)
              THEN RemoveLoop(SliceDelete(arr, L, i), n, L - 1, i + 1, name)
              ELSE [panic |-> TRUE, tokens |-> SubSeq(arr, 1, L)]
         ELSE RemoveLoop(arr, n, L, i + 1, name)

\* a variant without the len(tmpProductNames) == 0 branch
RemoveStoreEmpty(tokens) == NewString(Join(tokens))

\* lines 175-179: what is stored for the tokens the loop leaves
RemoveStore(tokens) ==
    IF Len(tokens) = 0 THEN Nil ELSE NewString(Join(tokens))

\* lines 165-180: the outcome of RemoveProductName(name) on the field p
RemoveResult(p, name) ==
    IF ~p.present THEN [panic |-> FALSE, value |-> p]
    ELSE LET tokens == Split(String(p))
             r == RemoveLoop(tokens, Len(tokens), Len(tokens), 0, name)
         IN  IF r.panic THEN [panic |-> TRUE, value |-> p]
             ELSE [panic |-> FALSE, value |-> RemoveStore(r.tokens)]

----------------------------------------------------------------------------
(* Sequential calls on one Company *)

NoOp == [op |-> "none", name |-> <<>>]

Values == {Nil} \cup {NewString(s) : s \in StringsUpTo(MaxLen)}

RaceIdle ==
    /\ pc = [g \in {1, 2} |-> "idle"]
    /\ gname = [g \in {1, 2} |-> <<>>]
    /\ cond = [g \in {1, 2} |-> FALSE]
    /\ tmp = [g \in {1, 2} |-> <<>>]
    /\ seen = [g \in {1, 2} |-> Nil]
    /\ raceInit = Nil

\* the Company structure: one *HsStr or *HsTime per json tag, all of them
\* nil in the zero value
CompanyTags ==
    {"id", "name", "industry", "domain", "phone", "city", "state",
     "hs_createdate", "hs_lastmodifieddate", "hs_object_id",
     "hubspot_owner_assigneddate", "hubspot_owner_id",
     "products", "trial_status", "trial_end_date"}

\* a nil field of the structure
NilField == [present |-> FALSE, s |-> ""]

Company == [k \in CompanyTags |-> NilField]

NoCall == [op |-> "none", id |-> "", option |-> <<>>]
NoRequest == [method |-> "none", path |-> "", query |-> <<>>, body |-> <<>>,
              bound |-> FALSE]
NoResponse == [outcome |-> "none", results |-> <<>>, decoded |-> {}]
NoReturn == [resource |-> [nil |-> TRUE, ids |-> <<>>, bound |-> FALSE],
             err |-> "nil"]

ServiceIdle ==
    /\ target = Company
    /\ pre = Company
    /\ svc = NoCall
    /\ req = NoRequest
    /\ resp = NoResponse
    /\ ret = NoReturn

HelperInit ==
    /\ ProductNames \in Values
    /\ before = ProductNames
    /\ before2 = ProductNames
    /\ lastOp = NoOp
    /\ prevOp = NoOp
    /\ panicked = FALSE
    /\ RaceIdle
    /\ ServiceIdle

Record(op, name) ==
    /\ before' = ProductNames
    /\ before2' = before
    /\ lastOp' = [op |-> op, name |-> name]
    /\ prevOp' = lastOp

AddProductName(name) ==
    /\ ~panicked
    /\ Len(AddValue(ProductNames, name).s) <= MaxLen
    /\ ProductNames' = AddValue(ProductNames, name)
    /\ Record("Add", name)
    /\ UNCHANGED panicked
    /\ UNCHANGED <<rvars, svars>>

RemoveProductName(name) ==
    /\ ~panicked
    /\ LET r == RemoveResult(ProductNames, name)
       IN  /\ ProductNames' = r.value
           /\ panicked' = r.panic
    /\ Record("Remove", name)
    /\ UNCHANGED <<rvars, svars>>

HelperNext ==
    \/ \E name \in Names : AddProductName(name)
    \/ \E name \in Names : RemoveProductName(name)

HelperSpec == HelperInit /\ [][HelperNext]_vars

----------------------------------------------------------------------------
(* Properties of the sequential helper calls *)

HasSep(s) == \E k \in 1..Len(s) : s[k] = Sep

\* the tokens of a field: none when it is nil
TokensOf(p) == IF p.present THEN Split(String(p)) ELSE <<>>

\* tokens with the first element equal to name deleted
RemoveFirst(tokens, name) ==
    IF \E k \in 1..Len(tokens) : tokens[k] = name
    THEN LET k == CHOOSE k \in 1..Len(tokens) :
                      tokens[k] = name /\ \A j \in 1..(k - 1) : tokens[j] # name
         IN  SubSeq(tokens, 1, k - 1) \o SubSeq(tokens, k + 1, Len(tokens))
    ELSE tokens

\* C1: one RemoveProductName(name) call on a present field leaves the
\* original token sequence with exactly its first token equal to name
\* deleted, every other token kept in order.
C1_RemoveExactlyFirst ==
    (lastOp.op = "Remove" /\ before.present) =>
        /\ ~panicked
        /\ TokensOf(ProductNames) = RemoveFirst(Split(before.s), lastOp.name)

\* C2: AddProductName(name) stores name when the field was nil or empty,
\* and otherwise the old value, a semicolon and name, duplicates included.
C2_AddAppends ==
    lastOp.op = "Add" =>
        ProductNames =
            [present |-> TRUE,
             s |-> IF ~before.present \/ before.s = <<>>
                   THEN lastOp.name
                   ELSE before.s \o <<Sep>> \o lastOp.name]

C2_Witness ==
    /\ lastOp = [op |-> "Add", name |-> <<"x">>]
    /\ prevOp = [op |-> "Add", name |-> <<"x">>]
    /\ ~before2.present
    /\ before = [present |-> TRUE, s |-> <<"x">>]
    /\ ProductNames = [present |-> TRUE, s |-> <<"x", Sep, "x">>]

\* C3: when RemoveProductName(name) leaves no tokens, which is when the
\* value was the single token name, the field is nil afterwards, not a
\* present empty string.
C3_RemoveLastGivesNil ==
    (/\ lastOp.op = "Remove"
     /\ before.present
     /\ before.s = lastOp.name
     /\ ~HasSep(lastOp.name)) =>
        (~panicked /\ ~ProductNames.present)

C3_Witness ==
    /\ lastOp = [op |-> "Remove", name |-> <<"x">>]
    /\ before = [present |-> TRUE, s |-> <<"x">>]
    /\ ~ProductNames.present
    /\ ~panicked

\* C9: RemoveProductName(name) completes without a runtime panic for every
\* field value and every name.
C9_RemoveNeverPanics == lastOp.op = "Remove" => ~panicked

\* C10: AddProductName(n) followed at once by RemoveProductName(n) restores
\* the field, for n without a semicolon and a prior value that is nil or a
\* non-empty string with no token equal to n.
C10_AddThenRemoveRestores ==
    (/\ lastOp.op = "Remove"
     /\ prevOp.op = "Add"
     /\ prevOp.name = lastOp.name
     /\ ~HasSep(lastOp.name)
     /\ \/ ~before2.present
        \/ /\ before2.s # <<>>
           /\ RemoveFirst(Split(before2.s), lastOp.name) = Split(before2.s)) =>
        (~panicked /\ ProductNames = before2)

C10_Witness ==
    /\ lastOp = [op |-> "Remove", name |-> <<"x">>]
    /\ prevOp = [op |-> "Add", name |-> <<"x">>]
    /\ before2 = [present |-> TRUE, s |-> <<"y">>]
    /\ before = [present |-> TRUE, s |-> <<"y", Sep, "x">>]
    /\ ProductNames = before2
    /\ ~panicked

----------------------------------------------------------------------------
(* Two goroutines, each inside one AddProductName call on the same Company. *)
(* The method takes no lock, so its reads of c.ProductNames (lines 158 and  *)
(* 159) and its write (line 162) interleave with the other goroutine's.     *)

Goroutines == {1, 2}

RaceNames == {<<>>, <<"x">>, <<"y">>}

RaceInit ==
    /\ ProductNames \in {v \in Values : Len(v.s) <= MaxRaceLen}
    /\ raceInit = ProductNames
    /\ gname \in [Goroutines -> RaceNames]
    /\ pc = [g \in Goroutines |-> "check"]
    /\ cond = [g \in Goroutines |-> FALSE]
    /\ tmp = [g \in Goroutines |-> <<>>]
    /\ seen = [g \in Goroutines |-> Nil]
    /\ before = ProductNames
    /\ before2 = ProductNames
    /\ lastOp = NoOp
    /\ prevOp = NoOp
    /\ panicked = FALSE
    /\ ServiceIdle

\* line 158: evaluate the condition on the field as it is now
AddCheck(g) ==
    /\ pc[g] = "check"
    /\ cond' = [cond EXCEPT ![g] = AddCond(ProductNames)]
    /\ seen' = [seen EXCEPT ![g] = ProductNames]
    /\ pc' = [pc EXCEPT ![g] = "split"]
    /\ UNCHANGED <<hvars, gname, tmp, raceInit, svars>>

\* lines 159-161: split the field as it is now (when the condition held) and
\* append the name to the local slice
AddSplit(g) ==
    /\ pc[g] = "split"
    /\ tmp' = [tmp EXCEPT ![g] =
                  Append(IF cond[g] THEN Split(String(ProductNames)) ELSE <<>>,
                         gname[g])]
    /\ seen' = [seen EXCEPT ![g] = IF cond[g] THEN ProductNames ELSE @]
    /\ pc' = [pc EXCEPT ![g] = "store"]
    /\ UNCHANGED <<hvars, gname, cond, raceInit, svars>>

\* a variant that holds a lock over the call: it appends to the field as it
\* is at the time of the write
AddStoreLocked(g) ==
    /\ pc[g] = "store"
    /\ ProductNames' = AddValue(ProductNames, gname[g])
    /\ pc' = [pc EXCEPT ![g] = "done"]
    /\ UNCHANGED <<before, before2, lastOp, prevOp, panicked,
                   gname, cond, tmp, seen, raceInit, svars>>

\* line 162: store the joined local slice
AddStore(g) ==
    /\ pc[g] = "store"
    /\ ProductNames' = AddStoreValue(tmp[g])
    /\ pc' = [pc EXCEPT ![g] = "done"]
    /\ UNCHANGED <<before, before2, lastOp, prevOp, panicked,
                   gname, cond, tmp, seen, raceInit, svars>>

RaceNext == \E g \in Goroutines : AddCheck(g) \/ AddSplit(g) \/ AddStore(g)

RaceSpec == RaceInit /\ [][RaceNext]_vars

\* the field after name is appended to the value p, as strings
AppendName(p, name) ==
    [present |-> TRUE,
     s |-> IF ~p.present \/ p.s = <<>> THEN name ELSE p.s \o <<Sep>> \o name]

Contains(tokens, name) == \E k \in 1..Len(tokens) : tokens[k] = name

\* C8: two concurrent AddProductName calls are unsynchronized read-then-write
\* updates: when both have read the field before either has written it, the
\* final value is the starting value with only one of the two names appended.
C8_LostUpdate ==
    (/\ \A g \in Goroutines : pc[g] = "done"
     /\ \A g \in Goroutines : seen[g] = raceInit) =>
        \E g \in Goroutines : ProductNames = AppendName(raceInit, gname[g])

C8_Witness ==
    /\ \A g \in Goroutines : pc[g] = "done"
    /\ \A g \in Goroutines : seen[g] = raceInit
    /\ ~raceInit.present
    /\ gname[1] = <<"x">>
    /\ gname[2] = <<"y">>
    /\ Contains(TokensOf(ProductNames), gname[2])
    /\ ~Contains(TokensOf(ProductNames), gname[1])

----------------------------------------------------------------------------
(* CompanyServiceOp: the operations over the transport client *)

companyBasePath == "companies"

\* CompanyServiceOp.companyPath, which the client sets to the base path
companyPath == companyBasePath

defaultCompanyFields ==
    <<"id", "name", "industry", "domain", "phone", "city", "state",
      "hs_createdate", "hs_lastmodifieddate", "hs_object_id",
      "hubspot_owner_assigneddate", "hubspot_owner_id",
      "products", "trial_status", "trial_end_date">>

\* (*RequestQueryOption).setupProperties(defaultFields): the option with the
\* default list in place of an empty property list
setupProperties(option, defaultFields) ==
    [option EXCEPT !.Properties = IF Len(@) = 0 THEN defaultFields ELSE @]

\* a nil *ResponseResource or *ResponseResourceMulti
NilResource == [nil |-> TRUE, ids |-> <<>>, bound |-> FALSE]

\* a decoded envelope: the ids of its results, and whether the Properties
\* of its (first) result is the caller's structure
Resource(ids, bound) == [nil |-> FALSE, ids |-> ids, bound |-> bound]

(* The transport client (Client.Get, Post, Patch, Delete) and the decoding   *)
(* of the response into the envelope it is handed. A call ends in one of:    *)
(*   "ok"           the whole response is decoded into the envelope          *)
(*   "send error"   no response to decode (network failure, non-2xx status)  *)
(*   "decode error" decoding fails after the properties named in `decoded`   *)
(*                  have been stored                                         *)
Outcomes == {"ok", "send error", "decode error"}

\* decoding a "properties" object into a Company: a key that is one of the
\* structure's json tags is stored, any other key is ignored, and a field
\* whose tag is not among the keys is left as it is
Decode(company, properties, keys) ==
    [k \in CompanyTags |->
        IF k \in keys \cap DOMAIN properties
        THEN NewString(properties[k])
        ELSE company[k]]

\* the caller's structure after the transport call: it is written only
\* through an envelope whose Properties references it
ClientDo(bound, company, results, outcome, decoded) ==
    [target |->
         IF bound /\ outcome # "send error" /\ Len(results) >= 1
         THEN Decode(company, results[1].properties,
                     IF outcome = "ok" THEN DOMAIN results[1].properties
                     ELSE decoded)
         ELSE company,
     err |-> IF outcome = "ok" THEN "nil" ELSE outcome,
     ids |-> [i \in 1..Len(results) |-> results[i].id]]

\* the server's answers
Acme == [id |-> "1", properties |-> ("name" :> "Acme")]
Beta == [id |-> "42",
         properties |-> ("name" :> "Beta" @@ "hs_object_id" :> "42"
                         @@ "custom_a" :> "v")]
ServerObjects == {Acme, Beta}

\* the results of a list or search response
ServerResults == {<<>>, <<Acme>>, <<Beta, Acme>>}

\* the keys a failing decode may have stored before it failed
Partial(results, outcome) ==
    IF outcome = "decode error" /\ Len(results) >= 1
    THEN (SUBSET DOMAIN results[1].properties) \ {DOMAIN results[1].properties}
    ELSE {{}}

\* the inputs of the calls
CompanyIDs == {"1", "42"}

CallerCompanies ==
    {Company, [Company EXCEPT !["name"] = NewString("Acme")]}

QueryOptions ==
    [Properties : {<<>>, <<"name", "custom_a">>},
     Associations : {<<>>, <<"contacts">>, <<"contacts", "deals">>}]

SearchOptions == [Properties : {<<>>, <<"name">>}]

\* lines 81-84 (93-96, 105-108, 125-128, 140-143): the error alone, or the
\* envelope alone
Return(resource, err) ==
    IF err # "nil" THEN [resource |-> NilResource, err |-> err]
    ELSE [resource |-> resource, err |-> "nil"]

\* what one call leaves behind: the request goes to the transport, which
\* answers with `results` and ends in `outcome`
Call(op, id, option, company, request, results, outcome, decoded) ==
    LET out == ClientDo(request.bound, company, results, outcome, decoded)
    IN  [target |-> out.target,
         pre |-> company,
         svc |-> [op |-> op, id |-> id, option |-> option],
         req |-> request,
         resp |-> [outcome |-> outcome, results |-> results, decoded |-> decoded],
         ret |-> Return(Resource(out.ids, request.bound), out.err)]

\* a variant that takes the last association name
GetPathLast(companyID, option) ==
    IF Len(option.Associations) # 0
    THEN companyPath \o "/" \o companyID \o "/associations/"
            \o option.Associations[Len(option.Associations)]
    ELSE companyPath \o "/" \o companyID

\* lines 76-79: the path of Get
GetPath(companyID, option) ==
    IF Len(option.Associations) # 0
    THEN companyPath \o "/" \o companyID \o "/associations/"
            \o option.Associations[1]
    ELSE companyPath \o "/" \o companyID

\* lines 75, 77-80: whether the envelope of Get references the caller's
\* structure
GetBound(option) == Len(option.Associations) = 0

\* lines 74-85
Get(companyID, company, option) ==
    \E r \in ServerObjects, outcome \in Outcomes :
        \E decoded \in Partial(<<r>>, outcome) :
            LET c == Call("Get", companyID, option, company,
                          [method |-> "GET",
                           path |-> GetPath(companyID, option),
                           query |-> setupProperties(option,
                                         defaultCompanyFields).Properties,
                           body |-> <<>>,
                           bound |-> GetBound(option)],
                          <<r>>, outcome, decoded)
            IN  /\ target' = c.target /\ pre' = c.pre /\ svc' = c.svc
                /\ req' = c.req /\ resp' = c.resp /\ ret' = c.ret
                /\ UNCHANGED <<hvars, rvars>>

\* a variant whose envelope is a fresh one, as in the association branch
\* of Get
CreateBoundFresh == FALSE

\* line 92: the envelope of Create references the caller's structure
CreateBound == TRUE

\* lines 90-97
Create(company) ==
    \E r \in ServerObjects, outcome \in Outcomes :
        \E decoded \in Partial(<<r>>, outcome) :
            LET c == Call("Create", "", <<>>, company,
                          [method |-> "POST",
                           path |-> companyPath,
                           query |-> <<>>,
                           body |-> [properties |-> company],
                           bound |-> CreateBound],
                          <<r>>, outcome, decoded)
            IN  /\ target' = c.target /\ pre' = c.pre /\ svc' = c.svc
                /\ req' = c.req /\ resp' = c.resp /\ ret' = c.ret
                /\ UNCHANGED <<hvars, rvars>>

\* lines 102-109
Update(companyID, company) ==
    \E r \in ServerObjects, outcome \in Outcomes :
        \E decoded \in Partial(<<r>>, outcome) :
            LET c == Call("Update", companyID, <<>>, company,
                          [method |-> "PATCH",
                           path |-> companyPath \o "/" \o companyID,
                           query |-> <<>>,
                           body |-> [properties |-> company],
                           bound |-> TRUE],
                          <<r>>, outcome, decoded)
            IN  /\ target' = c.target /\ pre' = c.pre /\ svc' = c.svc
                /\ req' = c.req /\ resp' = c.resp /\ ret' = c.ret
                /\ UNCHANGED <<hvars, rvars>>

\* a variant that appends the defaults to the caller's list
GetAllOptionMerge(option) ==
    [option EXCEPT !.Properties = @ \o defaultCompanyFields]

\* lines 121-123: the option GetAll hands to the transport
GetAllOption(option) ==
    IF Len(option.Properties) = 0
    THEN setupProperties(option, defaultCompanyFields)
    ELSE option

\* lines 116-129: the envelope is a fresh ResponseResourceMulti
GetAll(company, option) ==
    \E results \in ServerResults, outcome \in Outcomes :
        \E decoded \in Partial(results, outcome) :
            LET c == Call("GetAll", "", option, company,
                          [method |-> "GET",
                           path |-> companyPath,
                           query |-> GetAllOption(option).Properties,
                           body |-> <<>>,
                           bound |-> FALSE],
                          results, outcome, decoded)
            IN  /\ target' = c.target /\ pre' = c.pre /\ svc' = c.svc
                /\ req' = c.req /\ resp' = c.resp /\ ret' = c.ret
                /\ UNCHANGED <<hvars, rvars>>

\* lines 136-144: the envelope's first result references the caller's
\* structure, the option is the request body
Search(company, option) ==
    \E results \in ServerResults, outcome \in Outcomes :
        \E decoded \in Partial(results, outcome) :
            LET c == Call("Search", "", option, company,
                          [method |-> "POST",
                           path |-> companyPath \o "/search",
                           query |-> <<>>,
                           body |-> option,
                           bound |-> TRUE],
                          results, outcome, decoded)
            IN  /\ target' = c.target /\ pre' = c.pre /\ svc' = c.svc
                /\ req' = c.req /\ resp' = c.resp /\ ret' = c.ret
                /\ UNCHANGED <<hvars, rvars>>

\* lines 148-154: no envelope, nothing is decoded, the caller hands over no
\* structure
Delete(companyID) ==
    \E outcome \in {"ok", "send error"} :
        /\ target' = target
        /\ pre' = target
        /\ svc' = [op |-> "Delete", id |-> companyID, option |-> <<>>]
        /\ req' = [method |-> "DELETE",
                   path |-> companyPath \o "/" \o companyID,
                   query |-> <<>>, body |-> <<>>, bound |-> FALSE]
        /\ resp' = [outcome |-> outcome, results |-> <<>>, decoded |-> {}]
        /\ ret' = [resource |-> NilResource,
                   err |-> IF outcome = "ok" THEN "nil" ELSE outcome]
        /\ UNCHANGED <<hvars, rvars>>

ServiceInit ==
    /\ ServiceIdle
    /\ RaceIdle
    /\ ProductNames = Nil
    /\ before = Nil
    /\ before2 = Nil
    /\ lastOp = NoOp
    /\ prevOp = NoOp
    /\ panicked = FALSE

ServiceNext ==
    \/ \E id \in CompanyIDs, c \in CallerCompanies, o \in QueryOptions : Get(id, c, o)
    \/ \E c \in CallerCompanies, o \in QueryOptions : GetAll(c, o)
    \/ \E c \in CallerCompanies, o \in SearchOptions : Search(c, o)
    \/ \E c \in CallerCompanies : Create(c)
    \/ \E id \in CompanyIDs, c \in CallerCompanies : Update(id, c)
    \/ \E id \in CompanyIDs : Delete(id)

ServiceSpec == ServiceInit /\ [][ServiceNext]_vars

----------------------------------------------------------------------------
(* Properties of the service operations *)

\* C4: Get sends its GET to "companies/" + id with the caller's structure
\* referenced by the envelope when option.Associations is empty; otherwise
\* to "companies/" + id + "/associations/" + the first association name,
\* with a fresh envelope, and the caller's structure is not written.
C4_GetRequest ==
    svc.op = "Get" =>
        /\ req.method = "GET"
        /\ Len(svc.option.Associations) = 0 =>
               /\ req.path = "companies/" \o svc.id
               /\ req.bound
        /\ Len(svc.option.Associations) # 0 =>
               /\ req.path = "companies/" \o svc.id \o "/associations/"
                                 \o Head(svc.option.Associations)
               /\ ~req.bound
               /\ target = pre

C4_Witness ==
    /\ svc.op = "Get"
    /\ svc.id = "42"
    /\ svc.option.Associations = <<"contacts", "deals">>
    /\ req.path = "companies/42/associations/contacts"
    /\ resp.outcome = "ok"
    /\ resp.results = <<Beta>>
    /\ ~ret.resource.nil
    /\ target = pre

\* C5: Get and GetAll send the caller's property list unchanged when it is
\* not empty and the 15 default Company fields in their declared order when
\* it is empty; Search sends its option as it is.
C5_PropertiesSent ==
    /\ svc.op \in {"Get", "GetAll"} =>
           req.query = IF Len(svc.option.Properties) # 0
                       THEN svc.option.Properties
                       ELSE defaultCompanyFields
    /\ svc.op = "Search" => req.body = svc.option /\ req.query = <<>>
    /\ Len(defaultCompanyFields) = 15

C5_Witness ==
    /\ svc.op = "GetAll"
    /\ svc.option.Properties = <<>>
    /\ Len(req.query) = 15
    /\ req.query[1] = "id"
    /\ req.query[15] = "trial_end_date"

\* the structure of Create(&Company{Name: NewString("Acme")})
AcmeRequest == [Company EXCEPT !["name"] = [present |-> TRUE, s |-> "Acme"]]

C7_FailureLeavesTarget ==
    ret.err # "nil" =>
        /\ ret.err = resp.outcome
        /\ ret.resource.nil
        /\ target = pre

====
